---- MODULE Spec2Model ----
(***************************************************************************)
(* Model of the task / project mutation services of the project-management *)
(* API: app/services/task_service.py, app/services/project_service.py and  *)
(* the repositories they call (app/repositories/*.py).                     *)
(*                                                                         *)
(* The backing store is the state: users, projects, tasks.  Every service  *)
(* method is one action; `last` records the request and its result (the    *)
(* exception class raised, with its details dict, or "ok").  Where the     *)
(* claim is about concurrent requests, a handler is split at its awaits    *)
(* and `inflight` holds the requests that are between two of their steps.  *)
(*                                                                         *)
(* Python's None is modelled by None (numbers, ids, timestamps) and        *)
(* NoneStr (strings); truthiness tests (`if x:`, `not x`) by Falsy and     *)
(* FalsyStr, so that 0 and "" behave as they do in the code.               *)
(*                                                                         *)
(* Several specifications explore the same services with different        *)
(* request sets: Spec (task status machine, authorization, assignment),    *)
(* ProjectSpec (project status and dates, with the tasks of the project),  *)
(* FieldSpec (field rules of update_task and the derived scores),          *)
(* FrameSpec (every mutating operation), ComplexitySpec and AiPrioritySpec *)
(* (the scoring functions), UserSpec (app/services/user_service.py) and    *)
(* ConcurrentSpec (two update_task_status requests on one task).           *)
(***************************************************************************)
EXTENDS Integers, Sequences, FiniteSets, TLC

\* ---------------------------------------------------------------- bounds
NUsers == 2
MaxProjects == 1
MaxTasks == 2
MaxBatch == 2
MaxHours == 1
MaxNow == 1
MaxDate == 2
MaxFieldTasks == 1
MaxDue == 10
MaxToday == 2

\* ------------------------------------------------------- values and enums
None == -1
NoneStr == "None"

Falsy(v) == v = None \/ v = 0
FalsyStr(s) == s = NoneStr \/ s = ""

UserIds == 1..NUsers
\* ids a request may name: the existing users and one id that matches no row
AnyUserId == 1..(NUsers + 1)
AnyProjectId == 1..(MaxProjects + 1)
AnyTaskId == 1..(MaxTasks + 1)
\* hours a request supplies; 0 is falsy and every test of the services treats
\* it like an absent value, so the supplied values start at 1
Hours == 1..MaxHours
Times == 1..MaxNow
\* calendar days of start_date, end_date and due_date
Dates == 1..MaxDate

TaskStatus == {"todo", "in_progress", "in_review", "done", "blocked", "cancelled"}
ProjectStatus == {"planning", "active", "on_hold", "completed", "cancelled"}
TaskPriority == {"low", "medium", "high", "critical"}

NoDetails == [empty |-> TRUE]

VARIABLES users, projects, tasks, next_task_id, next_project_id, last,
          inflight
vars == <<users, projects, tasks, next_task_id, next_project_id, last, inflight>>

\* ------------------------------------------------------------ repositories

\* BaseRepository.get_by_id: the row, or None when no row has that id
Exists(table, id) == id \in DOMAIN table

\* BaseRepository.update with the default exclude_unset=True: a field of
\* obj_in is assigned only when its value is not None
StrFields == {"status", "title", "description", "priority",
              "email", "username", "full_name", "hashed_password"}
BoolFields == {"is_active", "is_superuser"}
IsNone(f, v) ==
    IF f \in StrFields THEN v = NoneStr
    ELSE IF f \in BoolFields THEN FALSE
    ELSE v = None
RepoUpdate(row, obj_in) ==
    [f \in DOMAIN row |->
        IF f \in DOMAIN obj_in /\ ~IsNone(f, obj_in[f])
        THEN obj_in[f] ELSE row[f]]

\* BaseRepository.create: a new row under the next primary key
RepoCreate(table, id, row) ==
    [i \in DOMAIN table \cup {id} |-> IF i = id THEN row ELSE table[i]]

\* BaseRepository.delete
RepoDelete(table, id) == [i \in DOMAIN table \ {id} |-> table[i]]

\* BaseRepository.get_by_ids: SELECT ... WHERE id IN (ids)
get_by_ids(table, ids) == {i \in DOMAIN table : \E k \in DOMAIN ids : ids[k] = i}

Range(s) == {s[k] : k \in DOMAIN s}

\* one stored row with a single field replaced by the service's result
Put(table, id, row) == [table EXCEPT ![id] = row]

\* result of a service call: the exception class raised (or "ok"), the
\* details dict of the exception, and the tasks table after the call
Raise(kind, details) == [kind |-> kind, details |-> details, tasks |-> tasks]
Return(t) == [kind |-> "ok", details |-> NoDetails, tasks |-> t]

\* ------------------------------------------------------------ TaskService

\* schemas/base.py: use_enum_values=True, so a validated enum field of a
\* request schema holds the enum's value, a plain str, not the enum member
use_enum_values == TRUE
\* `x.value` is defined on enum members only: on a str taken from a request
\* schema under use_enum_values it raises AttributeError
HasValueAttr(from_schema) == ~(from_schema /\ use_enum_values)

\* update_task_status: the state machine table
valid_transitions ==
    [s \in TaskStatus |->
        CASE s = "todo"        -> <<"in_progress", "cancelled">>
          [] s = "in_progress" -> <<"in_review", "blocked", "done", "cancelled">>
          [] s = "in_review"   -> <<"done", "in_progress", "cancelled">>
          [] s = "blocked"     -> <<"in_progress", "cancelled">>
          [] s = "done"        -> <<"in_progress">>
          [] s = "cancelled"   -> <<"todo">>]

\* is_assignee or is_creator or is_project_owner
IsTaskParty(task, uid) ==
    \/ task.assignee_id = uid
    \/ task.created_by = uid
    \/ projects[task.project_id].owner_id = uid

\* is_creator or is_project_owner
IsCreatorOrOwner(task, uid) ==
    \/ task.created_by = uid
    \/ projects[task.project_id].owner_id = uid

\* new_status not in valid_transitions.get(old_status, [])
InvalidTransition(old_status, new_status) ==
    new_status \notin Range(valid_transitions[old_status])

\* variant of MissingActualHours with the second `not` forgotten
MissingActualHours_SecondNotDropped(task, status_data) ==
    Falsy(task.actual_hours) /\ ~Falsy(status_data.actual_hours)

\* not task.actual_hours and not status_data.actual_hours
MissingActualHours(task, status_data) ==
    Falsy(task.actual_hours) /\ Falsy(status_data.actual_hours)

\* variant of MissingNotes testing `is None` instead of truthiness
MissingNotes_IsNone(status_data) == status_data.notes = NoneStr

\* not status_data.notes
MissingNotes(status_data) == FalsyStr(status_data.notes)

\* variant of StartUnassigned testing the assignee of blocked tasks instead
StartUnassigned_WrongState(task, new_status) ==
    new_status = "in_progress" /\ task.status = "blocked" /\ Falsy(task.assignee_id)

\* new_status == IN_PROGRESS and old_status == TODO, and not task.assignee_id
StartUnassigned(task, new_status) ==
    new_status = "in_progress" /\ task.status = "todo" /\ Falsy(task.assignee_id)

\* update_data built by update_task_status for a transition that passed
StatusUpdateData(status_data, now) ==
    IF status_data.status = "done"
    THEN [status |-> status_data.status,
          completed_at |-> now,
          actual_hours |-> IF Falsy(status_data.actual_hours)
                           THEN None ELSE status_data.actual_hours]
    ELSE [status |-> status_data.status]

update_task_status(task_id, status_data, current_user_id, now) ==
    IF ~Exists(tasks, task_id)
    THEN Raise("NotFoundException", [task_id |-> task_id])
    ELSE LET task == tasks[task_id]
             old_status == task.status
             new_status == status_data.status
         IN  IF ~IsTaskParty(task, current_user_id)
             THEN Raise("ForbiddenException", NoDetails)
             ELSE IF InvalidTransition(old_status, new_status)
             THEN IF HasValueAttr(TRUE)
                  THEN Raise("BusinessLogicException",
                             [current_status |-> old_status,
                              requested_status |-> new_status,
                              valid_transitions |-> valid_transitions[old_status]])
                  ELSE Raise("AttributeError", NoDetails)
             ELSE IF new_status = "done" /\ MissingActualHours(task, status_data)
             THEN Raise("ValidationException", [field |-> "actual_hours"])
             ELSE IF new_status = "blocked" /\ MissingNotes(status_data)
             THEN Raise("ValidationException", [field |-> "notes"])
             ELSE IF StartUnassigned(task, new_status)
             THEN Raise("BusinessLogicException", [hint |-> "Assign task first"])
             ELSE Return(Put(tasks, task_id,
                             RepoUpdate(task, StatusUpdateData(status_data, now))))

\* variant of ActiveUser that accepts any user that exists
ActiveUser_ExistsOnly(uid) == Exists(users, uid)

\* a user row that exists and is active (`not assignee or not assignee.is_active`
\* is its negation)
ActiveUser(uid) == Exists(users, uid) /\ users[uid].is_active

\* _calculate_complexity_score.  The technical keywords a description
\* contains (`keyword in description_lower`), for the descriptions modelled.
technical_keywords ==
    {"database", "api", "migration", "integration",
     "architecture", "security", "performance", "algorithm"}
AllKeywordsText ==
    "database api migration integration architecture security performance algorithm"
KeywordsIn(description) ==
    CASE description = "fix the api" -> {"api"}
      [] description = AllKeywordsText -> technical_keywords
      [] description = "database api migration integration" ->
             {"database", "api", "migration", "integration"}
      [] OTHER -> {}
keyword_count(description) ==
    Cardinality(technical_keywords \cap KeywordsIn(description))

Min(a, b) == IF a <= b THEN a ELSE b
Max(a, b) == IF a >= b THEN a ELSE b

\* score from the estimated hours: 5 when there are none (None or 0)
HoursScore(estimated_hours) ==
    IF Falsy(estimated_hours) THEN 5
    ELSE IF estimated_hours <= 2 THEN 2
    ELSE IF estimated_hours <= 8 THEN 4
    ELSE IF estimated_hours <= 24 THEN 6
    ELSE IF estimated_hours <= 80 THEN 8
    ELSE 10

_calculate_complexity_score(title, description, estimated_hours) ==
    LET s0 == HoursScore(estimated_hours)
        s1 == IF ~FalsyStr(description) /\ Len(description) > 500
              THEN Min(10, s0 + 1) ELSE s0
        s2 == IF ~FalsyStr(description)
              THEN Min(10, s1 + keyword_count(description)) ELSE s1
    IN  Max(1, Min(10, s2))

\* _calculate_ai_priority.  Scores are floats with one decimal in the code;
\* here they are counted in tenths (7.5 is 75), so round(score, 2) changes
\* nothing.  Dates are whole days, so (due_date - now).days is due_date - now.
\* variant of priority_scores that gives high the base score of medium
priority_scores_HighAsMedium ==
    [p \in TaskPriority |->
        CASE p = "low" -> 20 [] p = "medium" -> 50
          [] p = "high" -> 50 [] p = "critical" -> 95]

priority_scores ==
    [p \in TaskPriority |->
        CASE p = "low" -> 20 [] p = "medium" -> 50
          [] p = "high" -> 75 [] p = "critical" -> 95]

_calculate_ai_priority(priority, due_date, complexity, now) ==
    LET base == priority_scores[priority]
        days_until_due == due_date - now
        urgent ==
            IF Falsy(due_date) THEN base
            ELSE IF days_until_due < 0 THEN Min(100, base + 20)
            ELSE IF days_until_due <= 1 THEN Min(100, base + 15)
            ELSE IF days_until_due <= 3 THEN Min(100, base + 10)
            ELSE IF days_until_due <= 7 THEN Min(100, base + 5)
            ELSE base
    IN  IF ~Falsy(complexity) /\ complexity >= 8
        THEN Min(100, urgent + 5) ELSE urgent

\* task_dict of create_task: model_dump() of the request plus created_by,
\* with complexity_score and ai_priority_score computed when the request
\* gave none (`if not task_dict.get(...)`)
TaskDict(task_data, creator_id, now) ==
    LET complexity_score ==
            IF Falsy(task_data.complexity_score)
            THEN _calculate_complexity_score(task_data.title, task_data.description,
                                             task_data.estimated_hours)
            ELSE task_data.complexity_score
        ai_priority_score ==
            IF Falsy(task_data.ai_priority_score)
            THEN _calculate_ai_priority(task_data.priority, task_data.due_date,
                                        complexity_score, now)
            ELSE task_data.ai_priority_score
    IN  [status            |-> task_data.status,
         project_id        |-> task_data.project_id,
         assignee_id       |-> task_data.assignee_id,
         created_by        |-> creator_id,
         actual_hours      |-> task_data.actual_hours,
         completed_at      |-> None,
         title             |-> task_data.title,
         description       |-> task_data.description,
         priority          |-> task_data.priority,
         estimated_hours   |-> task_data.estimated_hours,
         due_date          |-> task_data.due_date,
         complexity_score  |-> complexity_score,
         ai_priority_score |-> ai_priority_score]

\* task_data.due_date and project.end_date and due_date > end_date
DueAfterProjectEnd(project, task_data) ==
    /\ ~Falsy(task_data.due_date)
    /\ ~Falsy(project.end_date)
    /\ task_data.due_date > project.end_date

\* variant of NotProjectOwner that lets any active user create tasks
NotProjectOwner_Never(project, creator_id) == FALSE

\* project.owner_id != creator_id
NotProjectOwner(project, creator_id) == project.owner_id # creator_id

create_task(task_data, creator_id, now) ==
    IF ~Exists(projects, task_data.project_id)
    THEN Raise("NotFoundException", NoDetails)
    ELSE LET project == projects[task_data.project_id]
         IN  IF project.status = "cancelled"
             THEN Raise("BusinessLogicException", NoDetails)
             ELSE IF project.status = "completed"
             THEN Raise("BusinessLogicException", NoDetails)
             ELSE IF ~Exists(users, creator_id)
             THEN Raise("NotFoundException", NoDetails)
             ELSE IF ~users[creator_id].is_active
             THEN Raise("ValidationException", NoDetails)
             ELSE IF NotProjectOwner(project, creator_id)
             THEN Raise("ForbiddenException", NoDetails)
             ELSE IF ~Falsy(task_data.assignee_id) /\ ~Exists(users, task_data.assignee_id)
             THEN Raise("NotFoundException", NoDetails)
             ELSE IF ~Falsy(task_data.assignee_id) /\ ~users[task_data.assignee_id].is_active
             THEN Raise("ValidationException", NoDetails)
             ELSE IF DueAfterProjectEnd(project, task_data)
             THEN Raise("ValidationException", NoDetails)
             ELSE Return(RepoCreate(tasks, next_task_id,
                                    TaskDict(task_data, creator_id, now)))

\* tasks.assignee_id is a foreign key to users.id: the commit of a row whose
\* assignee_id names no user fails in the database
ViolatesForeignKey(row) ==
    ~IsNone("assignee_id", row.assignee_id) /\ ~Exists(users, row.assignee_id)

\* variant of allowed_fields that also lets an assignee rename the task
allowed_fields_WithTitle == {"status", "actual_hours", "description", "title"}

\* fields an assignee who is neither creator nor project owner may send
allowed_fields == {"status", "actual_hours", "description"}

\* update_task after the write: the complexity score is computed again from
\* the updated row when the request named title, description or
\* estimated_hours, and written with a second repository update
Recalculated(updated_task, update_dict) ==
    IF DOMAIN update_dict \cap {"title", "description", "estimated_hours"} # {}
    THEN RepoUpdate(updated_task,
            [complexity_score |->
                _calculate_complexity_score(updated_task.title,
                                            updated_task.description,
                                            updated_task.estimated_hours)])
    ELSE updated_task

update_task(task_id, update_dict, current_user_id) ==
    IF ~Exists(tasks, task_id)
    THEN Raise("NotFoundException", [task_id |-> task_id])
    ELSE LET task == tasks[task_id]
             is_assignee == task.assignee_id = current_user_id
             forbidden_fields == DOMAIN update_dict \ allowed_fields
         IN  IF ~IsTaskParty(task, current_user_id)
             THEN Raise("ForbiddenException",
                        [task_id |-> task_id, current_user_id |-> current_user_id])
             ELSE IF is_assignee /\ ~IsCreatorOrOwner(task, current_user_id)
                     /\ forbidden_fields # {}
             THEN Raise("ForbiddenException", [forbidden_fields |-> forbidden_fields])
             ELSE IF "assignee_id" \in DOMAIN update_dict
                     /\ ~Falsy(update_dict["assignee_id"])
                     /\ ~ActiveUser(update_dict["assignee_id"])
             THEN Raise("ValidationException",
                        [assignee_id |-> update_dict["assignee_id"]])
             ELSE IF ViolatesForeignKey(RepoUpdate(task, update_dict))
             THEN Raise("IntegrityError", NoDetails)
             ELSE Return(Put(tasks, task_id,
                             Recalculated(RepoUpdate(task, update_dict), update_dict)))

assign_task(task_id, assignment_data, current_user_id) ==
    IF ~Exists(tasks, task_id)
    THEN Raise("NotFoundException", [task_id |-> task_id])
    ELSE LET task == tasks[task_id]
             new_assignee_id == assignment_data.assignee_id
         IN  IF ~IsCreatorOrOwner(task, current_user_id)
             THEN Raise("ForbiddenException", NoDetails)
             ELSE IF ~Falsy(new_assignee_id) /\ ~ActiveUser(new_assignee_id)
             THEN Raise("ValidationException", [assignee_id |-> new_assignee_id])
             ELSE IF ViolatesForeignKey(RepoUpdate(task, [assignee_id |-> new_assignee_id]))
             THEN Raise("IntegrityError", NoDetails)
             ELSE Return(Put(tasks, task_id,
                             RepoUpdate(task, [assignee_id |-> new_assignee_id])))

\* variant of IsCompleted that protects cancelled tasks instead of done ones
IsCompleted_Cancelled(task) == task.status = "cancelled"

\* task.status == TaskStatus.DONE: completed tasks are kept
IsCompleted(task) == task.status = "done"

delete_task(task_id, current_user_id) ==
    IF ~Exists(tasks, task_id)
    THEN Raise("NotFoundException", [task_id |-> task_id])
    ELSE LET task == tasks[task_id]
         IN  IF ~IsCreatorOrOwner(task, current_user_id)
             THEN Raise("ForbiddenException", NoDetails)
             ELSE IF IsCompleted(task)
             THEN Raise("BusinessLogicException", [hint |-> "Use cancel instead"])
             ELSE Return(RepoDelete(tasks, task_id))

\* The batch write of the task repository (one UPDATE ... WHERE id IN (ids)):
\* the session's view of the tasks after the statement touched the rows in
\* `applied`; all of task_ids when the statement completes.
repo_bulk_update_status(applied, new_status) ==
    [i \in DOMAIN tasks |->
        IF i \in applied THEN [tasks[i] EXCEPT !.status = new_status] ELSE tasks[i]]

\* variant of db_rollback where the handler commits what the session holds
db_rollback_Commits(committed, session) == session

\* AsyncSession.rollback(): the uncommitted changes of the session are dropped
db_rollback(committed, session) == committed

\* variant of unauthorized_tasks that lets the batch pass as soon as the
\* caller is a party of one of its tasks
unauthorized_tasks_AnyInsteadOfAll(found, current_user_id) ==
    IF \E i \in found : IsTaskParty(tasks[i], current_user_id)
    THEN {}
    ELSE found

\* unauthorized_tasks: the fetched tasks the caller is no party of
unauthorized_tasks(found, current_user_id) ==
    {i \in found : ~IsTaskParty(tasks[i], current_user_id)}

\* variant of SomeMissing that fails the batch only when no task was found
SomeMissing_OnlyWhenNoneFound(found, task_ids) == found = {} /\ Len(task_ids) # 0

\* len(tasks) != len(task_ids)
SomeMissing(found, task_ids) == Cardinality(found) # Len(task_ids)

\* the two validations that precede the write
BulkValidated(task_ids, current_user_id) ==
    LET found == get_by_ids(tasks, task_ids)
    IN  /\ ~SomeMissing(found, task_ids)
        /\ unauthorized_tasks(found, current_user_id) = {}

\* `write` is the outcome of the repository write: whether it raised, and
\* which rows it had touched by then
bulk_update_status(task_ids, new_status, current_user_id, write) ==
    LET found == get_by_ids(tasks, task_ids)
        missing_ids == Range(task_ids) \ found
    IN  IF SomeMissing(found, task_ids)
        THEN Raise("NotFoundException", [missing_ids |-> missing_ids])
        ELSE IF unauthorized_tasks(found, current_user_id) # {}
        THEN Raise("ForbiddenException",
                   [unauthorized_task_ids |-> unauthorized_tasks(found, current_user_id)])
        ELSE IF write.raised
        THEN [kind |-> "BusinessLogicException",
              details |-> [error |-> "str(e)"],
              tasks |-> db_rollback(tasks,
                            repo_bulk_update_status(write.applied, new_status))]
        ELSE Return(repo_bulk_update_status(Range(task_ids), new_status))

\* ---------------------------------------------------------- ProjectService

\* result of a project service call: the exception class raised (or "ok")
\* and the projects and tasks tables after the call
ProjectRaise(kind) ==
    [kind |-> kind, details |-> NoDetails, projects |-> projects, tasks |-> tasks]
ProjectReturn(p, t) ==
    [kind |-> "ok", details |-> NoDetails, projects |-> p, tasks |-> t]

\* project_dict: model_dump() of the request plus owner_id
ProjectDict(project_data, owner_id) ==
    [owner_id   |-> owner_id,
     status     |-> project_data.status,
     start_date |-> project_data.start_date,
     end_date   |-> project_data.end_date]

create_project(project_data, owner_id) ==
    IF ~Exists(users, owner_id) THEN ProjectRaise("NotFoundException")
    ELSE IF ~users[owner_id].is_active THEN ProjectRaise("ValidationException")
    ELSE ProjectReturn(RepoCreate(projects, next_project_id,
                                  ProjectDict(project_data, owner_id)),
                       tasks)

\* update_dict of update_project with the status key deleted
WithoutStatus(update_dict) ==
    [f \in DOMAIN update_dict \ {"status"} |-> update_dict[f]]

update_project(project_id, update_dict, current_user_id) ==
    IF ~Exists(projects, project_id) THEN ProjectRaise("NotFoundException")
    ELSE LET project == projects[project_id]
         IN  IF project.owner_id # current_user_id
             THEN ProjectRaise("ForbiddenException")
             ELSE ProjectReturn(
                      Put(projects, project_id,
                          RepoUpdate(project, WithoutStatus(update_dict))),
                      tasks)

\* project.tasks: the tasks of the project
ProjectTasks(project_id) == {i \in DOMAIN tasks : tasks[i].project_id = project_id}

\* sum(1 for task in project.tasks if task.status.value not in ["done", "cancelled"])
incomplete_tasks(project_id) ==
    Cardinality({i \in ProjectTasks(project_id) :
                    tasks[i].status \notin {"done", "cancelled"}})

\* variant of ActivateWithoutStart that tests the end date of the project
ActivateWithoutStart_EndDate(project, new_status) ==
    /\ project.status = "planning"
    /\ new_status = "active"
    /\ Falsy(project.end_date)

\* planning -> active without a start date
ActivateWithoutStart(project, new_status) ==
    /\ project.status = "planning"
    /\ new_status = "active"
    /\ Falsy(project.start_date)

\* active -> completed while tasks are incomplete
CompleteWithIncomplete(project_id, new_status) ==
    /\ projects[project_id].status = "active"
    /\ new_status = "completed"
    /\ incomplete_tasks(project_id) > 0

\* ProjectRepository.update_status: the project's status column is set
repo_update_status(project_id, new_status) ==
    Put(projects, project_id, [projects[project_id] EXCEPT !.status = new_status])

update_project_status(project_id, status_data, current_user_id) ==
    IF ~Exists(projects, project_id) THEN ProjectRaise("NotFoundException")
    ELSE LET project == projects[project_id]
             new_status == status_data.status
         IN  IF project.owner_id # current_user_id
             THEN ProjectRaise("ForbiddenException")
             ELSE IF ActivateWithoutStart(project, new_status)
             THEN ProjectRaise("BusinessLogicException")
             ELSE IF CompleteWithIncomplete(project_id, new_status)
             THEN ProjectRaise("BusinessLogicException")
             ELSE IF new_status = "on_hold" /\ FalsyStr(status_data.notes)
             THEN ProjectRaise("ValidationException")
             ELSE ProjectReturn(repo_update_status(project_id, new_status), tasks)

\* variant of CascadeDelete that leaves the tasks of the project behind
CascadeDelete_Orphans(project_id) == tasks

\* Project.tasks has cascade 'all, delete-orphan': deleting the project through
\* the session deletes its tasks
CascadeDelete(project_id) ==
    [i \in DOMAIN tasks \ ProjectTasks(project_id) |-> tasks[i]]

\* variant of delete_project that deletes the tasks before it tests the
\* force flag
delete_project_TasksFirst(project_id, current_user_id, force) ==
    IF ~Exists(projects, project_id) THEN ProjectRaise("NotFoundException")
    ELSE IF projects[project_id].owner_id # current_user_id
    THEN ProjectRaise("ForbiddenException")
    ELSE IF ProjectTasks(project_id) # {} /\ ~force
    THEN [ProjectRaise("BusinessLogicException")
            EXCEPT !.tasks = CascadeDelete(project_id)]
    ELSE ProjectReturn(RepoDelete(projects, project_id), CascadeDelete(project_id))

delete_project(project_id, current_user_id, force) ==
    IF ~Exists(projects, project_id) THEN ProjectRaise("NotFoundException")
    ELSE IF projects[project_id].owner_id # current_user_id
    THEN ProjectRaise("ForbiddenException")
    ELSE IF ProjectTasks(project_id) # {} /\ ~force
    THEN ProjectRaise("BusinessLogicException")
    ELSE ProjectReturn(RepoDelete(projects, project_id), CascadeDelete(project_id))

\* ------------------------------------------------------------------ inputs

OptUserId == {None} \cup AnyUserId
\* assignee_id of TaskUpdate and TaskAssignmentUpdate: Optional[int] with no
\* lower bound, so 0 (falsy, and no user's id) is admitted as well
OptAssigneeId == OptUserId \cup {0}
OptHours == {None} \cup Hours
Notes == {NoneStr, "", "waiting"}

OptDate == {None} \cup Dates

\* TaskCreate.  The requests of Spec vary the fields the status machine and
\* the authorization rules read; the descriptive fields are varied by
\* TaskCreateFields and the due date by TaskCreateDue below.
TaskCreateData ==
    [project_id : AnyProjectId, assignee_id : OptUserId,
     status : TaskStatus, actual_hours : OptHours,
     title : {"task"}, description : {NoneStr}, priority : {"medium"},
     estimated_hours : {None}, due_date : {None},
     complexity_score : {None}, ai_priority_score : {None}]

\* TaskCreate requests that vary the descriptive and the derived fields
Descriptions == {NoneStr, "fix the api"}
TaskCreateFields ==
    [project_id : {1}, assignee_id : {None} \cup UserIds,
     status : {"todo"}, actual_hours : {None},
     title : {"task"}, description : Descriptions, priority : {"low", "critical"},
     estimated_hours : OptHours, due_date : {None, 1},
     complexity_score : {None, 7}, ai_priority_score : {None, 30}]

\* TaskCreate requests that vary the due date
TaskCreateDue ==
    [project_id : AnyProjectId, assignee_id : {None},
     status : {"todo", "done"}, actual_hours : {None},
     title : {"task"}, description : {NoneStr}, priority : {"medium"},
     estimated_hours : {None}, due_date : OptDate,
     complexity_score : {None}, ai_priority_score : {None}]

\* TaskStatusUpdate
TaskStatusUpdateData == [status : TaskStatus, notes : Notes, actual_hours : OptHours]

\* TaskStatusUpdate requests that start a task
TaskStatusStart == [status : {"in_progress"}, notes : {NoneStr}, actual_hours : {None}]

\* TaskAssignmentUpdate
TaskAssignmentUpdateData == [assignee_id : OptAssigneeId]

\* TaskUpdate.model_dump(exclude_unset=True): the fields the request set,
\* a field set to null included
Unset == -2
UnsetStr == "unset"
IsUnset(f, v) == IF f \in StrFields THEN v = UnsetStr ELSE v = Unset
TaskUpdateData ==
    [status : TaskStatus \cup {UnsetStr},
     assignee_id : OptAssigneeId \cup {Unset},
     actual_hours : Hours \cup {Unset}]
model_dump(task_data) ==
    [f \in {g \in DOMAIN task_data : ~IsUnset(g, task_data[g])} |-> task_data[f]]
TaskUpdateDicts == {model_dump(task_data) : task_data \in TaskUpdateData}

\* TaskUpdate requests that vary which fields are set
TaskUpdateFields ==
    [status : {UnsetStr, "in_review"},
     actual_hours : {Unset, 1},
     description : {UnsetStr, "database api migration integration"},
     title : {UnsetStr, "new title"},
     estimated_hours : {Unset} \cup Hours,
     assignee_id : {Unset, NUsers}]
TaskUpdateFieldDicts == {model_dump(task_data) : task_data \in TaskUpdateFields}

\* TaskUpdate requests that set the due date
TaskUpdateDue == [due_date : OptDate \cup {Unset}, status : {UnsetStr, "done"}]
TaskUpdateDueDicts == {model_dump(task_data) : task_data \in TaskUpdateDue}

\* List[int] of the bulk request: any ids, repeated ids included
RECURSIVE SeqsUpTo(_, _)
SeqsUpTo(S, n) ==
    IF n = 0 THEN {<<>>}
    ELSE SeqsUpTo(S, n - 1) \cup
         {Append(q, x) : q \in {r \in SeqsUpTo(S, n - 1) : Len(r) = n - 1}, x \in S}
TaskIdLists == SeqsUpTo(AnyTaskId, MaxBatch)

\* outcome of the repository's batch write: it completes, or it raises after
\* touching some of the rows; NoWrite when the call never reaches the write
NoWrite == [raised |-> FALSE, applied |-> {}]
WriteOutcomes(task_ids) ==
    {[raised |-> FALSE, applied |-> Range(task_ids)]} \cup
    [raised : {TRUE}, applied : SUBSET Range(task_ids)]

\* ProjectCreate.  The operations below read a project's status only to test
\* it against completed and cancelled, so planning stands for the other
\* statuses (active, on_hold) a request may name.
ProjectCreateData ==
    [status : {"planning", "completed", "cancelled"},
     start_date : {None}, end_date : {None}]

\* ProjectBase.validate_end_date: end_date must be after start_date
validate_end_date(project_data) ==
    (~Falsy(project_data.end_date) /\ ~Falsy(project_data.start_date))
        => project_data.end_date > project_data.start_date

\* ProjectCreate requests that vary status and dates
ProjectCreateDates ==
    {d \in [status : ProjectStatus, start_date : OptDate, end_date : OptDate] :
        validate_end_date(d)}

\* ProjectCreate request of a plain planning project
ProjectCreatePlanning == [status : {"planning"}, start_date : {None}, end_date : {None}]

\* ProjectUpdate.model_dump(exclude_unset=True)
ProjectUpdateData ==
    [status : {UnsetStr, "active"},
     start_date : OptDate \cup {Unset},
     end_date : OptDate \cup {Unset}]
ProjectUpdateDicts == {model_dump(d) : d \in ProjectUpdateData}

\* ProjectStatusUpdate
ProjectStatusUpdateData == [status : ProjectStatus, notes : Notes]

\* ------------------------------------------------------------------ actions

\* `last` is the request being answered: the service method, the principal,
\* the task ids it named, the exception class raised ("ok" when it returned)
\* and the details dict of the exception.  Requests are served one at a time:
\* a handler runs when no response is pending, Respond hands the response to
\* the client.
Idle == [op |-> "idle", caller |-> None, task_ids |-> <<>>,
         kind |-> "ok", details |-> NoDetails]

Result(op, caller, task_ids, r) ==
    [op |-> op, caller |-> caller, task_ids |-> task_ids,
     kind |-> r.kind, details |-> r.details]

\* the database after the users registered: no project, no task.  The
\* services never read is_superuser, so Spec keeps it FALSE and varies
\* is_active; SuperuserInit below does the opposite.
InitWith(Users) ==
    /\ users \in Users
    /\ projects = <<>>
    /\ tasks = <<>>
    /\ next_task_id = 1
    /\ next_project_id = 1
    /\ last = Idle
    /\ inflight = <<>>

Init == InitWith([UserIds -> [is_active : BOOLEAN, is_superuser : {FALSE}]])

ProjectResult(op, caller, r) ==
    [op |-> op, caller |-> caller, task_ids |-> <<>>,
     kind |-> r.kind, details |-> r.details]

CreateProjectFrom(Requests) ==
    /\ last = Idle
    /\ next_project_id <= MaxProjects
    /\ \E owner_id \in UserIds, project_data \in Requests :
        LET r == create_project(project_data, owner_id)
        IN  /\ projects' = r.projects
            /\ next_project_id' = IF r.kind = "ok" THEN next_project_id + 1
                                   ELSE next_project_id
            /\ last' = ProjectResult("create_project", owner_id, r)
            /\ UNCHANGED <<users, tasks, next_task_id, inflight>>

CreateProject == CreateProjectFrom(ProjectCreateData)

CreateTaskFrom(Requests, max_tasks) ==
    /\ last = Idle
    /\ next_task_id <= max_tasks
    /\ \E creator_id \in UserIds, task_data \in Requests, now \in Times :
        LET r == create_task(task_data, creator_id, now)
        IN  /\ tasks' = r.tasks
            /\ next_task_id' = IF r.kind = "ok" THEN next_task_id + 1 ELSE next_task_id
            /\ last' = Result("create_task", creator_id,
                               IF r.kind = "ok" THEN <<next_task_id>> ELSE <<>>, r)
            /\ UNCHANGED <<users, projects, next_project_id, inflight>>

CreateTask == CreateTaskFrom(TaskCreateData, MaxTasks)

UpdateTaskStatusFrom(Requests) ==
    /\ last = Idle
    /\ \E task_id \in AnyTaskId, uid \in UserIds,
       status_data \in Requests, now \in Times :
        LET r == update_task_status(task_id, status_data, uid, now)
        IN  /\ tasks' = r.tasks
            /\ last' = Result("update_task_status", uid, <<task_id>>, r)
            /\ UNCHANGED <<users, projects, next_task_id, next_project_id, inflight>>

UpdateTaskStatus == UpdateTaskStatusFrom(TaskStatusUpdateData)

UpdateTaskFrom(Requests) ==
    /\ last = Idle
    /\ \E task_id \in AnyTaskId, uid \in UserIds, update_dict \in Requests :
        LET r == update_task(task_id, update_dict, uid)
        IN  /\ tasks' = r.tasks
            /\ last' = Result("update_task", uid, <<task_id>>, r)
            /\ UNCHANGED <<users, projects, next_task_id, next_project_id, inflight>>

UpdateTask == UpdateTaskFrom(TaskUpdateDicts)

AssignTask ==
    /\ last = Idle
    /\ \E task_id \in AnyTaskId, uid \in UserIds,
       assignment_data \in TaskAssignmentUpdateData :
        LET r == assign_task(task_id, assignment_data, uid)
        IN  /\ tasks' = r.tasks
            /\ last' = Result("assign_task", uid, <<task_id>>, r)
            /\ UNCHANGED <<users, projects, next_task_id, next_project_id, inflight>>

BulkUpdateStatus ==
    /\ last = Idle
    /\ \E task_ids \in TaskIdLists, uid \in UserIds, new_status \in TaskStatus :
      \E write \in IF BulkValidated(task_ids, uid)
                    THEN WriteOutcomes(task_ids) ELSE {NoWrite} :
        LET r == bulk_update_status(task_ids, new_status, uid, write)
        IN  /\ tasks' = r.tasks
            /\ last' = Result("bulk_update_status", uid, task_ids, r)
            /\ UNCHANGED <<users, projects, next_task_id, next_project_id, inflight>>

DeleteTask ==
    /\ last = Idle
    /\ \E task_id \in AnyTaskId, uid \in UserIds :
        LET r == delete_task(task_id, uid)
        IN  /\ tasks' = r.tasks
            /\ last' = Result("delete_task", uid, <<task_id>>, r)
            /\ UNCHANGED <<users, projects, next_task_id, next_project_id, inflight>>

\* the endpoint returns the entity, or the exception handler the error body
Respond ==
    /\ last # Idle
    /\ last' = Idle
    /\ UNCHANGED <<users, projects, tasks, next_task_id, next_project_id, inflight>>

Next ==
    \/ CreateProject
    \/ CreateTask
    \/ UpdateTaskStatus
    \/ UpdateTask
    \/ AssignTask
    \/ BulkUpdateStatus
    \/ DeleteTask
    \/ Respond

Spec == Init /\ [][Next]_vars

\* ------------------------------------------- projects: status and dates

SuperuserInit == InitWith([UserIds -> [is_active : {TRUE}, is_superuser : BOOLEAN]])

ProjectCreateProject == CreateProjectFrom(ProjectCreateDates)

UpdateProject ==
    /\ last = Idle
    /\ \E project_id \in AnyProjectId, uid \in UserIds,
          update_dict \in ProjectUpdateDicts :
        LET r == update_project(project_id, update_dict, uid)
        IN  /\ projects' = r.projects
            /\ last' = ProjectResult("update_project", uid, r)
            /\ UNCHANGED <<users, tasks, next_task_id, next_project_id, inflight>>

UpdateProjectStatus ==
    /\ last = Idle
    /\ \E project_id \in AnyProjectId, uid \in UserIds,
          status_data \in ProjectStatusUpdateData :
        LET r == update_project_status(project_id, status_data, uid)
        IN  /\ projects' = r.projects
            /\ last' = ProjectResult("update_project_status", uid, r)
            /\ UNCHANGED <<users, tasks, next_task_id, next_project_id, inflight>>

DeleteProject ==
    /\ last = Idle
    /\ \E project_id \in AnyProjectId, uid \in UserIds, force \in BOOLEAN :
        LET r == delete_project(project_id, uid, force)
        IN  /\ projects' = r.projects
            /\ tasks' = r.tasks
            /\ last' = ProjectResult("delete_project", uid, r)
            /\ UNCHANGED <<users, next_task_id, next_project_id, inflight>>

ProjectCreateTask == CreateTaskFrom(TaskCreateDue, MaxTasks)

ProjectUpdateTask == UpdateTaskFrom(TaskUpdateDueDicts)

ProjectNext ==
    \/ ProjectCreateProject
    \/ UpdateProject
    \/ UpdateProjectStatus
    \/ DeleteProject
    \/ ProjectCreateTask
    \/ ProjectUpdateTask
    \/ Respond

ProjectSpec == SuperuserInit /\ [][ProjectNext]_vars

\* ------------------------------------- tasks: field rules and derived scores

FieldCreateProject == CreateProjectFrom(ProjectCreatePlanning)

FieldCreateTask == CreateTaskFrom(TaskCreateFields, MaxFieldTasks)

FieldUpdateTask == UpdateTaskFrom(TaskUpdateFieldDicts)

FieldUpdateTaskStatus == UpdateTaskStatusFrom(TaskStatusStart)

FieldNext ==
    \/ FieldCreateProject
    \/ FieldCreateTask
    \/ FieldUpdateTask
    \/ FieldUpdateTaskStatus
    \/ Respond

FieldSpec == SuperuserInit /\ [][FieldNext]_vars

\* ------------------------------------- every mutating operation together

FrameCreateTask == CreateTaskFrom(TaskCreateData, MaxFieldTasks)

FrameNext ==
    \/ CreateProject
    \/ FrameCreateTask
    \/ UpdateTaskStatus
    \/ UpdateTask
    \/ AssignTask
    \/ BulkUpdateStatus
    \/ DeleteTask
    \/ UpdateProject
    \/ UpdateProjectStatus
    \/ DeleteProject
    \/ Respond

FrameSpec == Init /\ [][FrameNext]_vars

\* --------------------------------------------- the scoring functions alone

\* TaskBase.estimated_hours: Field(None, ge=0, le=1000)
MaxEstimatedHours == 1000

\* a description of 550 characters with no technical keyword
RECURSIVE Repeat(_, _)
Repeat(str, n) == IF n = 0 THEN "" ELSE str \o Repeat(str, n - 1)
LongText == Repeat("plain text ", 50)

ScoreDescriptions ==
    {NoneStr, "", "fix the api", "database api migration integration",
     AllKeywordsText, LongText}

\* arguments of _calculate_complexity_score
ComplexityArguments ==
    [op : {"complexity_arguments"}, title : {"task"},
     description : ScoreDescriptions,
     estimated_hours : {None} \cup 0..MaxEstimatedHours]

\* arguments of _calculate_ai_priority, with the day datetime.utcnow() falls on
AiPriorityArguments ==
    [op : {"ai_priority_arguments"}, priority : TaskPriority,
     due_date : {None} \cup 1..MaxDue,
     complexity : {None} \cup 1..10,
     now : 1..MaxToday]

ScoreInit(Arguments) ==
    /\ users = <<>>
    /\ projects = <<>>
    /\ tasks = <<>>
    /\ next_task_id = 1
    /\ next_project_id = 1
    /\ last \in Arguments
    /\ inflight = <<>>

ComplexityInit == ScoreInit(ComplexityArguments)

CalculateComplexity ==
    /\ last.op = "complexity_arguments"
    /\ last' = [op |-> "_calculate_complexity_score",
                title |-> last.title,
                description |-> last.description,
                estimated_hours |-> last.estimated_hours,
                score |-> _calculate_complexity_score(last.title, last.description,
                                                      last.estimated_hours)]
    /\ UNCHANGED <<users, projects, tasks, next_task_id, next_project_id, inflight>>

ComplexityNext == CalculateComplexity

ComplexitySpec == ComplexityInit /\ [][ComplexityNext]_vars

AiPriorityInit == ScoreInit(AiPriorityArguments)

CalculateAiPriority ==
    /\ last.op = "ai_priority_arguments"
    /\ last' = [op |-> "_calculate_ai_priority",
                priority |-> last.priority,
                due_date |-> last.due_date,
                complexity |-> last.complexity,
                now |-> last.now,
                score |-> _calculate_ai_priority(last.priority, last.due_date,
                                                 last.complexity, last.now)]
    /\ UNCHANGED <<users, projects, tasks, next_task_id, next_project_id, inflight>>

AiPriorityNext == CalculateAiPriority

AiPrioritySpec == AiPriorityInit /\ [][AiPriorityNext]_vars

\* ------------------------------------------------------------ UserService
\* users.email and users.username of UserSpec, and the passwords requests send
MaxUsers == 3
NRequests == 2

Emails == {"ann@example.com", "bob@example.com"}
Usernames == {"ann", "bob"}
\* UserCreate.password: 8 characters or more with upper case, lower case, digit
CreatePasswords == {"Passw0rd1"}
\* passwords of login and change-password requests
Passwords == CreatePasswords \cup {"password", "Secret123"}

\* pwd_context.hash / pwd_context.verify: the hash is not the password, and
\* a password verifies against the hash made from it and no other
Hash(secret) == "$2b$12$" \o secret
Verify(secret, hashed) == hashed = Hash(secret)

\* core/security.py: hash_password hashes the literal 'password', whatever
\* password it is given
hash_password(password) == Hash("password")
verify_password(plain_password, hashed_password) ==
    Verify(plain_password, hashed_password)

\* result of a user service call: the exception class (or "ok"), its message
\* or details, and the users table after the call
UserRaise(kind, details) == [kind |-> kind, details |-> details, users |-> users]
UserReturn(u) == [kind |-> "ok", details |-> NoDetails, users |-> u]

\* UserRepository.email_exists / username_exists / get_by_email
email_exists(email) == \E i \in DOMAIN users : users[i].email = email
username_exists(username) == \E i \in DOMAIN users : users[i].username = username
get_by_email(email) == {i \in DOMAIN users : users[i].email = email}

\* variant of ViolatesUnique for columns without a unique index
ViolatesUnique_NoIndex(id, row) == FALSE

\* models/user.py: email and username are unique columns; a commit that
\* would store a second row with the same value raises IntegrityError
ViolatesUnique(id, row) ==
    \E i \in DOMAIN users \ {id} :
        users[i].email = row.email \/ users[i].username = row.username

\* the primary key of the next inserted user
next_user_id == Cardinality(DOMAIN users) + 1

\* create_user, lines 37-48: hash, insert, and the IntegrityError handler
insert_user(user_data) ==
    LET user_dict == [email |-> user_data.email,
                      username |-> user_data.username,
                      full_name |-> user_data.full_name,
                      hashed_password |-> hash_password(user_data.password),
                      is_active |-> TRUE,
                      is_superuser |-> FALSE]
    IN  IF ViolatesUnique(next_user_id, user_dict)
        THEN UserRaise("AlreadyExistsException", NoDetails)
        ELSE UserReturn(RepoCreate(users, next_user_id, user_dict))

EmailTaken(user_data) ==
    UserRaise("AlreadyExistsException",
              [field |-> "email", value |-> user_data.email])
UsernameTaken(user_data) ==
    UserRaise("AlreadyExistsException",
              [field |-> "username", value |-> user_data.username])

\* UserService.create_user run without another request in between
create_user(user_data) ==
    IF email_exists(user_data.email) THEN EmailTaken(user_data)
    ELSE IF username_exists(user_data.username) THEN UsernameTaken(user_data)
    ELSE insert_user(user_data)

\* the value of an optional field of a UserUpdate: None when it was not set
Field(user_data, f) == IF f \in DOMAIN user_data THEN user_data[f] ELSE NoneStr

\* `if self.user_repo.email_exists(...)` without await tests the coroutine
\* object, which is truthy whatever the query would have returned
Unawaited(result) == TRUE

\* UserService.update_user; user_data is the dict of the fields that were set
update_user(user_id, user_data, current_user_id) ==
    IF ~Exists(users, user_id)
    THEN UserRaise("NotFoundException", NoDetails)
    ELSE LET user == users[user_id]
             row == RepoUpdate(user, user_data)
         IN  IF user_id # current_user_id
             THEN UserRaise("ForbiddenException", NoDetails)
             ELSE IF /\ ~FalsyStr(Field(user_data, "email"))
                     /\ Field(user_data, "email") # user.email
                     /\ Unawaited(email_exists(Field(user_data, "email")))
             THEN UserRaise("AlreadyExistsException",
                            [message |-> "Email already exists"])
             ELSE IF /\ ~FalsyStr(Field(user_data, "username"))
                     /\ Field(user_data, "username") # user.username
                     /\ Unawaited(username_exists(Field(user_data, "username")))
             THEN UserRaise("AlreadyExistsException",
                            [message |-> "Username already exists"])
             ELSE IF ViolatesUnique(user_id, row)
             THEN UserRaise("IntegrityError", NoDetails)
             ELSE UserReturn(Put(users, user_id, row))

\* UserService.authenticate_user
authenticate_user(email, password) ==
    IF get_by_email(email) = {}
    THEN UserRaise("UnauthorizedException", [message |-> "Invalid credentials"])
    ELSE LET user == users[CHOOSE i \in get_by_email(email) : TRUE]
         IN  IF ~verify_password(password, user.hashed_password)
             THEN UserRaise("UnauthorizedException",
                            [message |-> "Invalide credentials"])
             ELSE IF ~user.is_active
             THEN UserRaise("UnauthorizedException",
                            [message |-> "User is inactive"])
             ELSE UserReturn(users)

\* UserService.change_password
change_password(user_id, password_data) ==
    IF ~Exists(users, user_id)
    THEN UserRaise("AttributeError", NoDetails)
    ELSE LET user == users[user_id]
         IN  IF ~verify_password(password_data.current_password,
                                 user.hashed_password)
             THEN UserRaise("UnauthorizedException",
                            [message |-> "Current password is incorrect"])
             ELSE IF password_data.new_password = password_data.current_password
             THEN UserRaise("ValidationException",
                            [message |-> "New password must be different"])
             ELSE UserReturn(Put(users, user_id,
                      RepoUpdate(user,
                          [hashed_password |->
                              hash_password(password_data.current_password)])))

\* ---- requests of the user service
UserCreateData ==
    [email : Emails, username : Usernames, full_name : {NoneStr},
     password : CreatePasswords]
\* UserUpdate.model_dump(exclude_unset=True)
UserUpdateDicts ==
    [email : Emails] \cup [username : Usernames] \cup [is_active : BOOLEAN]
    \cup [email : Emails, username : Usernames]
    \cup [full_name : {"Ann Lee"}]
\* UserPasswordUpdate; confirm_password equals new_password
UserPasswordUpdateData ==
    {[current_password |-> p, new_password |-> q, confirm_password |-> q] :
        p \in Passwords, q \in Passwords}
AnyCreatedUserId == 1..MaxUsers

\* ---- actions of the user service
RequestIds == 1..NRequests
InFlightPut(req, entry) ==
    [i \in DOMAIN inflight \cup {req} |-> IF i = req THEN entry ELSE inflight[i]]
InFlightDone(req) == [i \in DOMAIN inflight \ {req} |-> inflight[i]]

\* no user, no project, no task
UserInit == InitWith({<<>>})

\* create_user up to its first await: the email check
CheckEmail ==
    /\ last = Idle
    /\ Cardinality(DOMAIN users) < MaxUsers
    /\ \E req \in RequestIds \ DOMAIN inflight, user_data \in UserCreateData :
        IF email_exists(user_data.email)
        THEN /\ last' = ProjectResult("create_user", None, EmailTaken(user_data))
             /\ UNCHANGED inflight
        ELSE /\ inflight' = InFlightPut(req, [op |-> "create_user",
                                              pc |-> "email_checked",
                                              user_data |-> user_data])
             /\ UNCHANGED last
    /\ UNCHANGED <<users, projects, tasks, next_task_id, next_project_id>>

\* create_user between its first and its second await: the username check
CheckUsername ==
    /\ last = Idle
    /\ \E req \in DOMAIN inflight :
        /\ inflight[req].op = "create_user"
        /\ inflight[req].pc = "email_checked"
        /\ IF username_exists(inflight[req].user_data.username)
           THEN /\ last' = ProjectResult("create_user", None,
                                         UsernameTaken(inflight[req].user_data))
                /\ inflight' = InFlightDone(req)
           ELSE /\ inflight' = InFlightPut(req, [inflight[req] EXCEPT
                                                  !.pc = "username_checked"])
                /\ UNCHANGED last
    /\ UNCHANGED <<users, projects, tasks, next_task_id, next_project_id>>

\* create_user after its checks: the insert and its commit
InsertUser ==
    /\ last = Idle
    /\ \E req \in DOMAIN inflight :
        /\ inflight[req].op = "create_user"
        /\ inflight[req].pc = "username_checked"
        /\ LET r == insert_user(inflight[req].user_data)
           IN  /\ users' = r.users
               /\ last' = ProjectResult("create_user", None, r)
               /\ inflight' = InFlightDone(req)
    /\ UNCHANGED <<projects, tasks, next_task_id, next_project_id>>

UpdateUser ==
    /\ last = Idle
    /\ \E user_id \in AnyCreatedUserId, uid \in AnyCreatedUserId,
       user_data \in UserUpdateDicts :
        LET r == update_user(user_id, user_data, uid)
        IN  /\ users' = r.users
            /\ last' = ProjectResult("update_user", uid, r)
    /\ UNCHANGED <<projects, tasks, next_task_id, next_project_id, inflight>>

AuthenticateUser ==
    /\ last = Idle
    /\ \E email \in Emails, password \in Passwords :
        LET r == authenticate_user(email, password)
        IN  last' = ProjectResult("authenticate_user", None, r)
    /\ UNCHANGED <<users, projects, tasks, next_task_id, next_project_id, inflight>>

ChangePassword ==
    /\ last = Idle
    /\ \E user_id \in AnyCreatedUserId, password_data \in UserPasswordUpdateData :
        LET r == change_password(user_id, password_data)
        IN  /\ users' = r.users
            /\ last' = ProjectResult("change_password", user_id, r)
    /\ UNCHANGED <<projects, tasks, next_task_id, next_project_id, inflight>>

UserNext ==
    \/ CheckEmail
    \/ CheckUsername
    \/ InsertUser
    \/ UpdateUser
    \/ AuthenticateUser
    \/ ChangePassword
    \/ Respond

UserSpec == UserInit /\ [][UserNext]_vars

\* ------------------------------------------- concurrent status updates
\* update_task_status up to the await of task_repo.update: the request reads
\* the task in its own session, authorizes and validates against what it
\* read, and builds update_data
ValidateStatusUpdate ==
    /\ last = Idle
    /\ \E req \in RequestIds \ DOMAIN inflight, task_id \in DOMAIN tasks,
       uid \in UserIds, status_data \in TaskStatusUpdateData, now \in Times :
        LET r == update_task_status(task_id, status_data, uid, now)
        IN  IF r.kind = "ok"
            THEN /\ inflight' =
                       InFlightPut(req, [op |-> "update_task_status",
                                         task_id |-> task_id,
                                         caller |-> uid,
                                         update_data |->
                                             StatusUpdateData(status_data, now)])
                 /\ UNCHANGED last
            ELSE /\ last' = Result("update_task_status", uid, <<task_id>>, r)
                 /\ UNCHANGED inflight
    /\ UNCHANGED <<users, projects, tasks, next_task_id, next_project_id>>

\* task_repo.update of a validated request: the fields of update_data are
\* set on the row and committed, whatever the row holds by now
WriteStatusUpdate ==
    /\ last = Idle
    /\ \E req \in DOMAIN inflight :
        /\ inflight[req].op = "update_task_status"
        /\ LET task_id == inflight[req].task_id
           IN  /\ tasks' = Put(tasks, task_id,
                               RepoUpdate(tasks[task_id], inflight[req].update_data))
               /\ last' = Result("update_task_status", inflight[req].caller,
                                 <<task_id>>, Return(tasks'))
        /\ inflight' = InFlightDone(req)
    /\ UNCHANGED <<users, projects, next_task_id, next_project_id>>

ConcurrentNext ==
    \/ CreateProject
    \/ FrameCreateTask
    \/ ValidateStatusUpdate
    \/ WriteStatusUpdate
    \/ Respond

ConcurrentSpec == Init /\ [][ConcurrentNext]_vars

\* ------------------------------------------------------------------ claims

AllowedSet(old) ==
    CASE old = "todo"        -> {"in_progress", "cancelled"}
      [] old = "in_progress" -> {"in_review", "blocked", "done", "cancelled"}
      [] old = "in_review"   -> {"done", "in_progress", "cancelled"}
      [] old = "blocked"     -> {"in_progress", "cancelled"}
      [] old = "done"        -> {"in_progress"}
      [] old = "cancelled"   -> {"todo"}

\* the principal is the creator, the assignee or the project owner of the task
Party(id, uid) ==
    \/ tasks[id].created_by = uid
    \/ tasks[id].assignee_id = uid
    \/ projects[tasks[id].project_id].owner_id = uid

\* a request is served in the states where no response is pending; the
\* formulas below that quantify over requests state what the handler does
\* with each request it can receive in such a state
Serving == last = Idle

\* C1: whichever operation writes a task's status (update_task_status,
\* update_task, bulk_update_status), every change old -> new of a stored
\* status is an edge of the transition table; a task never goes from done
\* to todo in one step.
C1_StatusChangesFollowEdges ==
    [][\A id \in DOMAIN tasks \cap DOMAIN tasks' :
          tasks'[id].status # tasks[id].status
              => tasks'[id].status \in AllowedSet(tasks[id].status)]_vars

\* C2: update_task_status by a party of the task with a status outside the
\* allowed set of the current status raises BusinessLogicException whose
\* details name the current status, the requested status and the valid
\* targets, and no task changes.
C2_InvalidTransitionIsBusinessRuleViolation ==
    Serving =>
    \A id \in DOMAIN tasks, uid \in UserIds,
       status_data \in TaskStatusUpdateData, now \in Times :
        (Party(id, uid) /\ status_data.status \notin AllowedSet(tasks[id].status))
        => LET r == update_task_status(id, status_data, uid, now)
           IN  /\ r.kind = "BusinessLogicException"
               /\ r.details.current_status = tasks[id].status
               /\ r.details.requested_status = status_data.status
               /\ Range(r.details.valid_transitions) = AllowedSet(tasks[id].status)
               /\ r.tasks = tasks

\* C3: update_task_status into done by a party of the task, when the task
\* stores no actual_hours and the request supplies none, never succeeds and
\* changes nothing; when done is an allowed target of the current status the
\* error is ValidationException on the field actual_hours.
C3_DoneWithoutActualHoursFails ==
    Serving =>
    \A id \in DOMAIN tasks, uid \in UserIds,
       status_data \in TaskStatusUpdateData, now \in Times :
        (/\ Party(id, uid)
         /\ status_data.status = "done"
         /\ tasks[id].actual_hours = None
         /\ status_data.actual_hours = None)
        => LET r == update_task_status(id, status_data, uid, now)
           IN  /\ r.kind # "ok"
               /\ r.tasks = tasks
               /\ "done" \in AllowedSet(tasks[id].status)
                      => /\ r.kind = "ValidationException"
                         /\ r.details = [field |-> "actual_hours"]

C3_Witness ==
    /\ last.op = "update_task_status"
    /\ last.kind = "ValidationException"
    /\ last.details = [field |-> "actual_hours"]
    /\ tasks[last.task_ids[1]].status \in {"in_progress", "in_review"}
    /\ tasks[last.task_ids[1]].actual_hours = None

\* C4: update_task_status into blocked by a party of the task, with notes
\* absent or empty, never succeeds and leaves the task's status as it was;
\* when blocked is an allowed target of the current status the error is
\* ValidationException on the field notes.
C4_BlockedWithoutNotesFails ==
    Serving =>
    \A id \in DOMAIN tasks, uid \in UserIds,
       status_data \in TaskStatusUpdateData, now \in Times :
        (/\ Party(id, uid)
         /\ status_data.status = "blocked"
         /\ status_data.notes \in {NoneStr, ""})
        => LET r == update_task_status(id, status_data, uid, now)
           IN  /\ r.kind # "ok"
               /\ r.tasks[id].status = tasks[id].status
               /\ "blocked" \in AllowedSet(tasks[id].status)
                      => /\ r.kind = "ValidationException"
                         /\ r.details = [field |-> "notes"]

C4_Witness ==
    /\ last.op = "update_task_status"
    /\ last.kind = "ValidationException"
    /\ last.details = [field |-> "notes"]
    /\ tasks[last.task_ids[1]].status = "in_progress"

\* C5: update_task_status from todo to in_progress, by a party of a task
\* that has no assignee, raises BusinessLogicException and the task stays
\* in todo.
C5_StartUnassignedFails ==
    Serving =>
    \A id \in DOMAIN tasks, uid \in UserIds,
       status_data \in TaskStatusUpdateData, now \in Times :
        (/\ Party(id, uid)
         /\ tasks[id].status = "todo"
         /\ status_data.status = "in_progress"
         /\ tasks[id].assignee_id = None)
        => LET r == update_task_status(id, status_data, uid, now)
           IN  /\ r.kind = "BusinessLogicException"
               /\ r.details = [hint |-> "Assign task first"]
               /\ r.tasks = tasks
               /\ r.tasks[id].status = "todo"

C5_Witness ==
    /\ last.op = "update_task_status"
    /\ last.kind = "BusinessLogicException"
    /\ last.details = [hint |-> "Assign task first"]
    /\ tasks[last.task_ids[1]].status = "todo"
    /\ tasks[last.task_ids[1]].assignee_id = None

\* C6: a task whose status is not done has an empty completed_at (it is set
\* on a transition into done and cleared when a done task is reopened).
C6_NotDoneHasNoCompletedAt ==
    \A id \in DOMAIN tasks :
        tasks[id].status # "done" => tasks[id].completed_at = None

\* C7: bulk_update_status on a batch of existing tasks (each id once) of
\* which the caller is not creator, assignee or project owner of at least
\* one raises ForbiddenException listing exactly those tasks, and no task
\* changes; with or without missing ids, such a batch never succeeds and
\* changes no task.
C7_BulkUnauthorizedFailsBeforeWrite ==
    Serving =>
    \A task_ids \in TaskIdLists, uid \in UserIds, new_status \in TaskStatus :
      \A write \in WriteOutcomes(task_ids) :
        LET r == bulk_update_status(task_ids, new_status, uid, write)
            existing == Range(task_ids) \cap DOMAIN tasks
            strangers == {i \in existing : ~Party(i, uid)}
        IN  strangers # {}
            => /\ r.kind # "ok"
               /\ r.tasks = tasks
               /\ (Range(task_ids) \subseteq DOMAIN tasks
                    /\ Cardinality(Range(task_ids)) = Len(task_ids))
                      => /\ r.kind = "ForbiddenException"
                         /\ r.details = [unauthorized_task_ids |-> strangers]

\* a batch of two tasks of which the caller is a party of exactly one
C7_Witness ==
    /\ last.op = "bulk_update_status"
    /\ last.kind = "ForbiddenException"
    /\ Len(last.task_ids) = 2
    /\ Cardinality(last.details.unauthorized_task_ids) = 1

\* C8: bulk_update_status with a list naming at least one id that no task
\* has raises NotFoundException listing exactly the missing ids, and no task
\* changes, the existing ones of the list included.
C8_BulkMissingIdsFails ==
    Serving =>
    \A task_ids \in TaskIdLists, uid \in UserIds, new_status \in TaskStatus :
      \A write \in WriteOutcomes(task_ids) :
        LET r == bulk_update_status(task_ids, new_status, uid, write)
            missing == Range(task_ids) \ DOMAIN tasks
        IN  missing # {}
            => /\ r.kind = "NotFoundException"
               /\ r.details = [missing_ids |-> missing]
               /\ r.tasks = tasks

\* a list with one existing and one missing id
C8_Witness ==
    /\ last.op = "bulk_update_status"
    /\ last.kind = "NotFoundException"
    /\ last.details.missing_ids # {}
    /\ \E k \in DOMAIN last.task_ids : last.task_ids[k] \in DOMAIN tasks

\* C9: once the two validations of bulk_update_status passed, the write is
\* all or nothing: if it raises, the changes made in the session are rolled
\* back (every task is as before) and the caller gets BusinessLogicException
\* carrying the cause; if it completes, every task of the batch has the new
\* status and no other task changed.
C9_BulkWriteAllOrNothing ==
    Serving =>
    \A task_ids \in TaskIdLists, uid \in UserIds, new_status \in TaskStatus :
      \A write \in WriteOutcomes(task_ids) :
        LET r == bulk_update_status(task_ids, new_status, uid, write)
        IN  (/\ Range(task_ids) \subseteq DOMAIN tasks
             /\ Cardinality(Range(task_ids)) = Len(task_ids)
             /\ \A i \in Range(task_ids) : Party(i, uid))
            => IF write.raised
               THEN /\ r.kind = "BusinessLogicException"
                    /\ r.details = [error |-> "str(e)"]
                    /\ r.tasks = tasks
               ELSE /\ r.kind = "ok"
                    /\ DOMAIN r.tasks = DOMAIN tasks
                    /\ \A i \in DOMAIN tasks :
                          r.tasks[i] = IF i \in Range(task_ids)
                                       THEN [tasks[i] EXCEPT !.status = new_status]
                                       ELSE tasks[i]

\* a validated batch of two tasks whose write raised
C9_Witness ==
    /\ last.op = "bulk_update_status"
    /\ last.kind = "BusinessLogicException"
    /\ Len(last.task_ids) = 2

\* C10: delete_task on a task whose status is done raises
\* BusinessLogicException whoever the caller is, and the task is not deleted.
C10_DeleteDoneIsBusinessRuleViolation ==
    [][(/\ last'.op = "delete_task"
        /\ last'.task_ids[1] \in DOMAIN tasks
        /\ tasks[last'.task_ids[1]].status = "done")
       => /\ last'.kind = "BusinessLogicException"
          /\ tasks' = tasks]_vars

\* C10 as amended: delete_task on a task whose status is done never deletes
\* it: it raises BusinessLogicException when the caller is the creator or
\* the project owner, and ForbiddenException for any other caller.
C10_DeleteDoneFails ==
    [][(/\ last'.op = "delete_task"
        /\ last'.task_ids[1] \in DOMAIN tasks
        /\ tasks[last'.task_ids[1]].status = "done")
       => LET task == tasks[last'.task_ids[1]]
              privileged == \/ task.created_by = last'.caller
                            \/ projects[task.project_id].owner_id = last'.caller
          IN  /\ tasks' = tasks
              /\ last'.kind = IF privileged THEN "BusinessLogicException"
                                             ELSE "ForbiddenException"]_vars

\* the project owner was refused the deletion of a done task
C10_Witness ==
    /\ last.op = "delete_task"
    /\ last.kind = "BusinessLogicException"
    /\ tasks[last.task_ids[1]].status = "done"
    /\ projects[tasks[last.task_ids[1]].project_id].owner_id = last.caller

\* the principal is the task's assignee and neither its creator nor the
\* owner of its project
AssigneeOnly(id, uid) ==
    /\ tasks[id].assignee_id = uid
    /\ tasks[id].created_by # uid
    /\ projects[tasks[id].project_id].owner_id # uid

AssigneeFields == {"status", "actual_hours", "description"}

AuthRejected(r) ==
    r.kind = "ForbiddenException" /\ "forbidden_fields" \notin DOMAIN r.details

\* C12: update_task and update_task_status pass the authorization check
\* exactly for the principals that may read the task: a superuser, the
\* project owner, the task creator, the task assignee.
C12_UpdateAuthorizedLikeRead ==
    Serving =>
        \A id \in DOMAIN tasks, uid \in UserIds :
            LET may_read == users[uid].is_superuser \/ Party(id, uid)
            IN  /\ \A update_dict \in TaskUpdateFieldDicts :
                    LET r == update_task(id, update_dict, uid)
                    IN  /\ AuthRejected(r) <=> ~may_read
                        /\ AuthRejected(r) => r.tasks = tasks
                /\ \A status_data \in TaskStatusStart, now \in Times :
                    LET r == update_task_status(id, status_data, uid, now)
                    IN  /\ AuthRejected(r) <=> ~may_read
                        /\ AuthRejected(r) => r.tasks = tasks

\* the principal is the creator of the task or the owner of its project
CreatorOrOwner(id, uid) ==
    \/ tasks[id].created_by = uid
    \/ projects[tasks[id].project_id].owner_id = uid

ExistsAndActive(uid) == uid \in DOMAIN users /\ users[uid].is_active

\* the request must be rejected: the principal is neither creator nor
\* project owner, or the user named is missing or inactive
MustRejectAssignment(id, uid, assignee_id) ==
    \/ ~CreatorOrOwner(id, uid)
    \/ assignee_id # None /\ ~ExistsAndActive(assignee_id)

\* C13: a task's assignee_id is changed only by its creator or its project
\* owner, by assign_task or by update_task, and only to a user that exists
\* and is active; a request by anyone else, or one naming a missing or
\* inactive user, is rejected and leaves the tasks unchanged.
C13_AssigneeChangedOnlyByCreatorOrOwner ==
    /\ [](Serving =>
            \A id \in DOMAIN tasks, uid \in UserIds :
                /\ \A assignment_data \in TaskAssignmentUpdateData :
                       MustRejectAssignment(id, uid, assignment_data.assignee_id) =>
                           LET r == assign_task(id, assignment_data, uid)
                           IN  r.kind # "ok" /\ r.tasks = tasks
                /\ \A update_dict \in TaskUpdateDicts :
                       ("assignee_id" \in DOMAIN update_dict
                          /\ MustRejectAssignment(id, uid, update_dict["assignee_id"])) =>
                           LET r == update_task(id, update_dict, uid)
                           IN  r.kind # "ok" /\ r.tasks = tasks)
    /\ [][\A id \in DOMAIN tasks \cap DOMAIN tasks' :
              tasks'[id].assignee_id # tasks[id].assignee_id =>
                  /\ last'.op \in {"assign_task", "update_task"}
                  /\ CreatorOrOwner(id, last'.caller)
                  /\ ExistsAndActive(tasks'[id].assignee_id)]_vars

\* the creator or owner named an inactive user in assign_task and was refused
C13_Witness ==
    /\ last.op = "assign_task"
    /\ last.kind = "ValidationException"
    /\ CreatorOrOwner(last.task_ids[1], last.caller)
    /\ last.details.assignee_id \in DOMAIN users
    /\ ~users[last.details.assignee_id].is_active

\* C14: update_project, update_project_status and delete_project are
\* permitted exactly for the project's owner and for superusers; any other
\* principal gets ForbiddenException and projects and tasks are unchanged.
C14_ProjectWritesForOwnerOrSuperuser ==
    Serving =>
        \A project_id \in DOMAIN projects, uid \in UserIds :
            LET permitted == \/ projects[project_id].owner_id = uid
                             \/ users[uid].is_superuser
                Refused(r) == r.kind = "ForbiddenException"
                Settled(r) ==
                    /\ Refused(r) <=> ~permitted
                    /\ Refused(r) => r.projects = projects /\ r.tasks = tasks
            IN  /\ \A update_dict \in ProjectUpdateDicts :
                       Settled(update_project(project_id, update_dict, uid))
                /\ \A status_data \in ProjectStatusUpdateData :
                       Settled(update_project_status(project_id, status_data, uid))
                /\ \A force \in BOOLEAN :
                       Settled(delete_project(project_id, uid, force))

\* C15: update_project_status by the owner from planning to active raises
\* BusinessLogicException and leaves the status planning when the project
\* has no start_date, and returns with the status active when it has one.
C15_ActivatePlanningNeedsStartDate ==
    Serving =>
        \A project_id \in DOMAIN projects, notes \in Notes :
            projects[project_id].status = "planning" =>
                LET r == update_project_status(project_id,
                             [status |-> "active", notes |-> notes],
                             projects[project_id].owner_id)
                IN  IF projects[project_id].start_date = None
                    THEN /\ r.kind = "BusinessLogicException"
                         /\ r.projects = projects
                    ELSE /\ r.kind = "ok"
                         /\ r.projects[project_id].status = "active"

\* the owner of a planning project with no start date was refused
C15_Witness ==
    /\ last.op = "update_project_status"
    /\ last.kind = "BusinessLogicException"
    /\ \E project_id \in DOMAIN projects :
          /\ projects[project_id].owner_id = last.caller
          /\ projects[project_id].status = "planning"
          /\ projects[project_id].start_date = None

\* C16: in every state reached through create_project, update_project and
\* update_project_status, a project whose status is active has a start_date.
C16_ActiveHasStartDate ==
    \A project_id \in DOMAIN projects :
        projects[project_id].status = "active" =>
            projects[project_id].start_date # None

\* tasks of the project that are neither done nor cancelled
Incomplete(project_id) ==
    {i \in DOMAIN tasks : /\ tasks[i].project_id = project_id
                          /\ tasks[i].status \notin {"done", "cancelled"}}

\* C17: whatever the current status of the project, update_project_status to
\* completed is rejected while the project has a task that is neither done
\* nor cancelled, and the project's status is unchanged.
C17_CompleteRejectedWithIncompleteTasks ==
    Serving =>
        \A project_id \in DOMAIN projects, uid \in UserIds, notes \in Notes :
            Incomplete(project_id) # {} =>
                LET r == update_project_status(project_id,
                             [status |-> "completed", notes |-> notes], uid)
                IN  /\ r.kind # "ok"
                    /\ r.projects[project_id].status = projects[project_id].status

\* the conditions create_task requires of its request
MayCreateTask(task_data, creator_id) ==
    /\ task_data.project_id \in DOMAIN projects
    /\ projects[task_data.project_id].status \notin {"completed", "cancelled"}
    /\ ExistsAndActive(creator_id)
    /\ projects[task_data.project_id].owner_id = creator_id
    /\ task_data.assignee_id # None => ExistsAndActive(task_data.assignee_id)

\* C18: create_task persists a task only if the project exists and is
\* neither completed nor cancelled, the creator exists, is active and owns
\* the project, and the assignee, when given, exists and is active; when one
\* of these fails the call is rejected and the tasks table is unchanged.
C18_CreateTaskPreconditions ==
    Serving =>
        \A creator_id \in AnyUserId, task_data \in TaskCreateData, now \in Times :
            LET r == create_task(task_data, creator_id, now)
            IN  /\ ~MayCreateTask(task_data, creator_id) =>
                        r.kind # "ok" /\ r.tasks = tasks
                /\ r.kind = "ok" =>
                        /\ MayCreateTask(task_data, creator_id)
                        /\ DOMAIN r.tasks = DOMAIN tasks \cup {next_task_id}
                        /\ \A i \in DOMAIN tasks : r.tasks[i] = tasks[i]

\* an active user who does not own the project was refused, and no task
\* exists
C18_Witness ==
    /\ last.op = "create_task"
    /\ last.kind = "ForbiddenException"
    /\ users[last.caller].is_active
    /\ tasks = <<>>

\* C19: in every state reached through create_task, update_task and
\* update_project, a task with a due_date whose project has an end_date is
\* due no later than the project ends.
C19_DueDateWithinProject ==
    \A i \in DOMAIN tasks :
        LET project == projects[tasks[i].project_id]
        IN  (tasks[i].due_date # None /\ project.end_date # None) =>
                tasks[i].due_date <= project.end_date

\* the stored scores of a task are the ones the system derives from its
\* stored fields
ScoresDerived(task) ==
    /\ task.complexity_score =
           _calculate_complexity_score(task.title, task.description,
                                       task.estimated_hours)
    /\ \E now \in Times :
           task.ai_priority_score =
               _calculate_ai_priority(task.priority, task.due_date,
                                      task.complexity_score, now)

\* C20: after every successful create_task, and after every successful
\* update_task that changes title, description or estimated_hours, the
\* stored complexity_score and ai_priority_score are the values derived
\* from the stored task; a value supplied by the caller never replaces them.
C20_ScoresAreSystemDerived ==
    [][/\ (last'.op = "create_task" /\ last'.kind = "ok") =>
              ScoresDerived(tasks'[last'.task_ids[1]])
       /\ (last'.op = "update_task" /\ last'.kind = "ok") =>
              LET before == tasks[last'.task_ids[1]]
                  after == tasks'[last'.task_ids[1]]
              IN  (\/ after.title # before.title
                   \/ after.description # before.description
                   \/ after.estimated_hours # before.estimated_hours) =>
                      ScoresDerived(after)]_vars

\* the bucket of the estimated hours
HoursBucket(h) ==
    IF h <= 2 THEN 2 ELSE IF h <= 8 THEN 4 ELSE IF h <= 24 THEN 6
    ELSE IF h <= 80 THEN 8 ELSE 10

\* C21: with no description the complexity score is the bucket value of the
\* estimated hours (h <= 2 gives 2, <= 8 gives 4, <= 24 gives 6, <= 80 gives
\* 8, otherwise 10) for every h from 0 to 1000, hence non-decreasing in h;
\* with any description the score lies within 1..10.
C21_ComplexityMonotoneInHours ==
    last.op = "_calculate_complexity_score" =>
        /\ last.score \in 1..10
        /\ (last.description = NoneStr /\ last.estimated_hours # None) =>
               /\ last.score = HoursBucket(last.estimated_hours)
               /\ \A h \in 0..last.estimated_hours :
                      _calculate_complexity_score(last.title, NoneStr, h) <= last.score

\* the parts of the priority score, in tenths
BaseScore(priority) ==
    CASE priority = "low" -> 20 [] priority = "medium" -> 50
      [] priority = "high" -> 75 [] priority = "critical" -> 95

Urgency(due_date, now) ==
    IF due_date = None THEN 0
    ELSE IF due_date - now < 0 THEN 20
    ELSE IF due_date - now <= 1 THEN 15
    ELSE IF due_date - now <= 3 THEN 10
    ELSE IF due_date - now <= 7 THEN 5
    ELSE 0

ComplexityBonus(complexity) == IF complexity # None /\ complexity >= 8 THEN 5 ELSE 0

\* C22: the priority score is min(10.0, base + urgency + bonus), with base
\* 2.0, 5.0, 7.5, 9.5 for low, medium, high, critical, urgency +2.0 when
\* overdue, +1.5 within 1 day, +1.0 within 3 days, +0.5 within 7 days and 0
\* otherwise or with no due date, and bonus +0.5 exactly when the
\* complexity is at least 8; it lies within 0..10.
C22_AiPriorityClosedForm ==
    last.op = "_calculate_ai_priority" =>
        LET sum == BaseScore(last.priority) + Urgency(last.due_date, last.now)
                   + ComplexityBonus(last.complexity)
        IN  /\ last.score = IF sum <= 100 THEN sum ELSE 100
            /\ last.score \in 0..100

\* critical, due yesterday, complexity 9: the score is clamped to 10.0
C22_Witness ==
    /\ last.op = "_calculate_ai_priority"
    /\ last.priority = "critical"
    /\ last.due_date = last.now - 1
    /\ last.complexity = 9
    /\ last.score = 100

MutatingOperations ==
    {"create_task", "update_task", "update_task_status", "assign_task",
     "delete_task", "bulk_update_status", "update_project",
     "update_project_status", "delete_project"}

\* C23: whenever one of the mutating operations returns an error, the stored
\* users, projects and tasks are exactly what they were before the call.
C23_RejectedRequestChangesNothing ==
    [][(last'.op \in MutatingOperations /\ last'.kind # "ok") =>
           UNCHANGED <<users, projects, tasks>>]_vars

\* delete_project was refused for a project that has tasks
C23_Witness ==
    /\ last.op = "delete_project"
    /\ last.kind = "BusinessLogicException"
    /\ \E i \in DOMAIN tasks : tasks[i].project_id \in DOMAIN projects

\* the tasks that belong to the project
OwnedTasks(project_id) == {i \in DOMAIN tasks : tasks[i].project_id = project_id}

\* C24: delete_project by the owner raises BusinessLogicException and keeps
\* project and tasks when the project has a task and force is not set;
\* otherwise it succeeds, the project and every task it owned are gone, the
\* other tasks are kept, and no user is deleted.
C24_DeleteProjectCascade ==
    /\ [](Serving =>
            \A project_id \in DOMAIN projects, force \in BOOLEAN :
                LET r == delete_project(project_id, projects[project_id].owner_id,
                                        force)
                IN  IF OwnedTasks(project_id) # {} /\ ~force
                    THEN /\ r.kind = "BusinessLogicException"
                         /\ r.projects = projects
                         /\ r.tasks = tasks
                    ELSE /\ r.kind = "ok"
                         /\ DOMAIN r.projects = DOMAIN projects \ {project_id}
                         /\ DOMAIN r.tasks = DOMAIN tasks \ OwnedTasks(project_id)
                         /\ \A i \in DOMAIN r.tasks : r.tasks[i] = tasks[i])
    /\ [][last'.op = "delete_project" => users' = users]_vars

\* a project that had tasks was deleted with the force flag: project and
\* tasks are gone, the users remain
C24_Witness ==
    /\ last.op = "delete_project"
    /\ last.kind = "ok"
    /\ next_task_id > 1
    /\ projects = <<>>
    /\ tasks = <<>>
    /\ DOMAIN users = UserIds

\* a password that does not verify against the stored hash of the user
WrongPassword(i, password) == users[i].hashed_password # Hash(password)

\* C25: authenticate_user answers an email that matches no user with the
\* same error, kind and message, as an existing user's email with a wrong
\* password.
C25_AuthenticationErrorsIndistinguishable ==
    Serving =>
        \A unknown \in Emails, i \in DOMAIN users, p1 \in Passwords, p2 \in Passwords :
            (get_by_email(unknown) = {} /\ WrongPassword(i, p2)) =>
                LET a == authenticate_user(unknown, p1)
                    b == authenticate_user(users[i].email, p2)
                IN  a.kind = b.kind /\ a.details = b.details

\* C26: a change_password whose current password p is right and whose new
\* password q differs from p stores the hash of q (q verifies, p does not);
\* a wrong current password is Unauthorized and q = p is a validation
\* failure, both leaving the users table as it was.
C26_ChangePasswordStoresNewHash ==
    Serving =>
        \A i \in DOMAIN users, password_data \in UserPasswordUpdateData :
            LET p == password_data.current_password
                q == password_data.new_password
                r == change_password(i, password_data)
            IN  IF WrongPassword(i, p)
                THEN r.kind = "UnauthorizedException" /\ r.users = users
                ELSE IF q = p
                THEN r.kind = "ValidationException" /\ r.users = users
                ELSE /\ r.kind = "ok"
                     /\ r.users[i].hashed_password = Hash(q)
                     /\ r.users[i].hashed_password # Hash(p)

\* no two stored users share an email or a username
UniqueUsers ==
    \A i \in DOMAIN users, j \in DOMAIN users :
        i # j => /\ users[i].email # users[j].email
                 /\ users[i].username # users[j].username

InUse(user_data) ==
    \/ \E i \in DOMAIN users : users[i].email = user_data.email
    \/ \E i \in DOMAIN users : users[i].username = user_data.username

\* the details of the error name a field whose value is in use
NamesOffendingField(details, user_data) ==
    /\ "field" \in DOMAIN details
    /\ \/ /\ details.field = "email"
          /\ \E i \in DOMAIN users : users[i].email = user_data.email
       \/ /\ details.field = "username"
          /\ \E i \in DOMAIN users : users[i].username = user_data.username

\* the create_user request req gets its response in this step
Answered(req) ==
    /\ inflight[req].op = "create_user"
    /\ req \notin DOMAIN inflight'

\* C27 as stated: under every interleaving of create_user and update_user
\* emails and usernames stay unique, and every create_user whose email or
\* username is in use fails with AlreadyExists naming the offending field
\* and creates no user.
C27_UniqueAndFieldAlwaysNamed ==
    /\ []UniqueUsers
    /\ [](Serving =>
            \A user_data \in UserCreateData :
                InUse(user_data) =>
                    LET r == create_user(user_data)
                    IN  /\ r.kind = "AlreadyExistsException"
                        /\ NamesOffendingField(r.details, user_data)
                        /\ r.users = users)
    /\ [][\A req \in DOMAIN inflight :
            (Answered(req) /\ InUse(inflight[req].user_data)) =>
                /\ last'.kind = "AlreadyExistsException"
                /\ NamesOffendingField(last'.details, inflight[req].user_data)
                /\ users' = users]_vars

\* C27 amended: uniqueness holds under every interleaving, and a create_user
\* whose email or username is in use fails with AlreadyExists and creates no
\* user; the error names the offending field when one of the two checks of
\* create_user finds the value, and carries no field when the value came
\* into use after the checks and the insert is refused.
C27_UniqueAndFieldNamedByChecks ==
    /\ []UniqueUsers
    /\ [](Serving =>
            \A user_data \in UserCreateData :
                InUse(user_data) =>
                    LET r == create_user(user_data)
                    IN  /\ r.kind = "AlreadyExistsException"
                        /\ NamesOffendingField(r.details, user_data)
                        /\ r.users = users)
    /\ [][\A req \in DOMAIN inflight :
            (Answered(req) /\ InUse(inflight[req].user_data)) =>
                /\ last'.kind = "AlreadyExistsException"
                /\ users' = users
                /\ IF inflight[req].pc = "username_checked"
                   THEN last'.details = NoDetails
                   ELSE NamesOffendingField(last'.details,
                                            inflight[req].user_data)]_vars

\* a create_user passed both checks and its insert was refused, while a user
\* is stored
C27_Witness ==
    /\ last.op = "create_user"
    /\ last.kind = "AlreadyExistsException"
    /\ last.details = NoDetails
    /\ users # <<>>

\* C28: in every state reached through create_task, update_task,
\* update_task_status and bulk_update_status, a task whose status is done
\* has actual_hours and completed_at.
C28_DoneHasHoursAndCompletedAt ==
    \A i \in DOMAIN tasks :
        tasks[i].status = "done" =>
            /\ tasks[i].actual_hours # None
            /\ tasks[i].completed_at # None

\* C30: when assign_task succeeds, the stored assignee_id of the task is the
\* requested one, for every value TaskAssignmentUpdate admits, None
\* (un-assign) included.
C30_AssignStoresRequestedAssignee ==
    Serving =>
        \A task_id \in DOMAIN tasks, uid \in UserIds,
           assignment_data \in TaskAssignmentUpdateData :
            LET r == assign_task(task_id, assignment_data, uid)
            IN  r.kind = "ok" =>
                    r.tasks[task_id].assignee_id = assignment_data.assignee_id

\* C29: with two update_task_status requests in flight on the same task,
\* each reading, validating and writing on its own, every change of the
\* stored status of a task is an edge of the transition table.
C29_ConcurrentStatusChangesFollowEdges ==
    [][\A i \in DOMAIN tasks \cap DOMAIN tasks' :
          tasks'[i].status # tasks[i].status =>
              tasks'[i].status \in AllowedSet(tasks[i].status)]_vars

====
